---------------------------- MODULE Spec2Model ----------------------------
(***************************************************************************)
(* A model of the Android MCP server (src/server.py).                      *)
(*                                                                         *)
(* Three specifications live in this module.                               *)
(*                                                                         *)
(*   SpecStartup  the module-level start-up code: loading config.yaml,     *)
(*                creating the FastMCP object and the AdbDeviceManager,    *)
(*                registering the tools, and entering mcp.run.             *)
(*                                                                         *)
(*   Spec         one server serving calls of its tools one after the      *)
(*                other, one device shell call per step; every shell call  *)
(*                either returns or raises.                                *)
(*                                                                         *)
(*   SpecBridge   two servers attached to the same device, both serving    *)
(*                termux_exec, their device shell calls interleaved.       *)
(*                                                                         *)
(* Text is modelled as a sequence of one-character strings, so that        *)
(* str.strip() and the `in` substring test are computed, not assumed.      *)
(***************************************************************************)
EXTENDS Integers, Sequences, FiniteSets, TLC

VARIABLES
    \* ---- start-up (SpecStartup) ----
    configFile,        \* what is on disk under the name config.yaml
    asMain,            \* TRUE: run as a script (__name__ == "__main__")
    spc,               \* position in the module-level code
    device_name,       \* the module variable device_name
    exitStatus,        \* -1 while the process lives, else its exit status
    reported,          \* TRUE once the error was printed to stderr
    mcpCreated,        \* FastMCP("android") was constructed
    managerInstances,  \* number of AdbDeviceManager constructions
    managerArg,        \* the argument of the last AdbDeviceManager(...)
    termuxCreated,     \* TermuxManager(deviceManager) was constructed
    registered,        \* the tools registered so far, in order
    running,           \* mcp.run was entered
    served,            \* tool calls served by mcp.run
    \* ---- tool calls (Spec) ----
    pc,                \* per server: position in the running tool handler
    tool,              \* per server: the tool being served
    command,           \* per server: the command / content argument
    filename,          \* per server: the filename argument
    log,               \* per server: the device steps of this call, in order
    readval,           \* per server: the local variable `result` / `content`
    ret,               \* per server: how the call ended
    mgrCalls,          \* per server: deviceManager calls made by this call
    overlapped,        \* per server: a call of another server was in
                       \* progress at some time during this call (history)
    pending,           \* per server: the output of its run of cmd.sh that
                       \* has not arrived in result.txt yet
    cmdOpen,           \* per server: its echo has cmd.sh open for writing
    resOpen,           \* per server: its run has result.txt open for writing
    files,             \* the device's files in the shared directory
    dirExists          \* the shared directory exists on the device

startupVars == <<configFile, asMain, spc, device_name, exitStatus, reported,
                 mcpCreated, managerInstances, managerArg, termuxCreated,
                 registered, running, served>>
toolVars == <<pc, tool, command, filename, log, readval, ret, mgrCalls,
              overlapped, pending, cmdOpen, resOpen, files, dirExists>>
vars == <<startupVars, toolVars>>

-----------------------------------------------------------------------------
(* Bounds *)

\* Longest configured device name explored.
MaxNameLen == 3
\* Tool calls served by mcp.run before the model stops counting.
MaxServed == 2

-----------------------------------------------------------------------------
(* Text *)

\* A character is a one-element string.  Characters TLA+ has no escape for
\* are written the way Python writes them ("\\xa0" is the one character
\* U+00A0, "\\x0b" the vertical tab).

\* The characters device names are built from: a letter, a blank, a tab, a
\* form feed, and the no-break space, which is whitespace for str and an
\* ordinary byte for bytes.
NameChars == {"a", " ", "\t", "\f", "\\xa0"}

\* What str.strip() removes when called without argument: the characters
\* for which str.isspace() holds.
StrWhitespace ==
    {"\t", "\n", "\\x0b", "\f", "\r", "\\x1c", "\\x1d", "\\x1e", "\\x1f", " ",
     "\\x85", "\\xa0", "\\u1680", "\\u2000", "\\u2001", "\\u2002", "\\u2003",
     "\\u2004", "\\u2005", "\\u2006", "\\u2007", "\\u2008", "\\u2009",
     "\\u200a", "\\u2028", "\\u2029", "\\u202f", "\\u205f", "\\u3000"}

\* What bytes.strip() removes when called without argument: ASCII whitespace.
BytesWhitespace == {" ", "\t", "\n", "\r", "\\x0b", "\f"}

\* The whitespace of .strip() for a value of the given kind.
Whitespace(kind) == IF kind = "bytes" THEN BytesWhitespace ELSE StrWhitespace

RECURSIVE SeqsUpTo(_, _)
SeqsUpTo(S, n) ==
    IF n = 0 THEN {<<>>}
    ELSE LET shorter == SeqsUpTo(S, n - 1)
         IN  shorter \cup {Append(s, c) : s \in {t \in shorter : Len(t) = n - 1}, c \in S}

RECURSIVE LStrip(_, _)
LStrip(kind, s) ==
    IF s # <<>> /\ Head(s) \in Whitespace(kind) THEN LStrip(kind, Tail(s)) ELSE s

RECURSIVE RStrip(_, _)
RStrip(kind, s) ==
    IF s # <<>> /\ s[Len(s)] \in Whitespace(kind)
    THEN RStrip(kind, SubSeq(s, 1, Len(s) - 1))
    ELSE s

\* A strip that forgets the trailing side.
StripLeadingOnly(kind, s) == LStrip(kind, s)

\* str.strip() / bytes.strip(): leading and trailing whitespace removed,
\* the inside kept.
Strip(kind, s) == RStrip(kind, LStrip(kind, s))

-----------------------------------------------------------------------------
(* config.yaml as yaml.safe_load sees it *)

\* The kinds of value yaml.safe_load can produce at one place of the
\* document.  "missing" is a key that is not there.  list0/dict0 are the
\* empty containers, str/bytes carry their text in a separate field.
Names == SeqsUpTo(NameChars, MaxNameLen)

TopKinds    == {"null", "zero", "int", "str0", "str1", "list0", "list1", "dict"}
DeviceKinds == {"missing", "null", "zero", "int", "str0", "str1", "list0",
                "list1", "dict0", "dict"}
NameKinds   == {"missing", "null", "false", "true", "zero", "int", "list0",
                "list1", "str", "bytes"}

NoFile == [exists |-> FALSE, readable |-> FALSE, wellformed |-> FALSE,
           top |-> "null", device |-> "missing", name |-> "missing",
           text |-> <<>>]

Doc(t, d, n, x) == [exists |-> TRUE, readable |-> TRUE, wellformed |-> TRUE,
                    top |-> t, device |-> d, name |-> n, text |-> x]

\* Every config.yaml the model starts from: absent; present but unreadable
\* (a directory, no permission); present but not YAML; and every document
\* shape down to device.name.
ConfigFiles ==
    {NoFile}
    \cup {[NoFile EXCEPT !.exists = TRUE]}
    \cup {[NoFile EXCEPT !.exists = TRUE, !.readable = TRUE]}
    \cup {Doc(t, "missing", "missing", <<>>) : t \in TopKinds \ {"dict"}}
    \cup {Doc("dict", d, "missing", <<>>) : d \in DeviceKinds \ {"dict"}}
    \cup {Doc("dict", "dict", n, <<>>) : n \in NameKinds \ {"str", "bytes"}}
    \cup {Doc("dict", "dict", n, x) : n \in {"str", "bytes"}, x \in Names}

\* Python truthiness of a value of the given kind and text.
Truthy(kind, text) ==
    CASE kind \in {"missing", "null", "false", "zero", "str0", "list0", "dict0"} -> FALSE
      [] kind \in {"str", "bytes"} -> text # <<>>
      [] OTHER -> TRUE

\* Kinds whose values have a .get method.
IsDict(kind) == kind \in {"dict", "dict0"}

\* Kinds whose values have a .strip method.
HasStrip(kind) == kind \in {"str", "bytes"}

\* device_name values: None, or text of the type the YAML value had.
None == [type |-> "None", text |-> <<>>]
Named(type, text) == [type |-> type, text |-> text]

\* Lines 18-19: open, read, yaml.safe_load.  TRUE when that raises.
ReadRaises(f) == ~f.readable \/ ~f.wellformed

\* Line 19: `yaml.safe_load(...) or {}` -- the kind of `config`.
ConfigKind(f) == IF Truthy(f.top, <<>>) THEN f.top ELSE "dict0"

\* Line 20: config.get("device", {}) raises unless config is a dict.
ConfigGetRaises(f) == ~IsDict(ConfigKind(f))

\* Line 20: the kind of device_config; the default {} when the key is missing.
DeviceConfigKind(f) ==
    IF ConfigKind(f) = "dict" /\ f.device # "missing" THEN f.device ELSE "dict0"

\* Lines 21-22: device_config.get("name") if device_config else None.
DeviceGetRaises(f) ==
    Truthy(DeviceConfigKind(f), <<>>) /\ ~IsDict(DeviceConfigKind(f))

\* Lines 21-22: kind and text of configured_device_name.
ConfiguredKind(f) ==
    IF Truthy(DeviceConfigKind(f), <<>>) /\ f.name # "missing" THEN f.name ELSE "null"
ConfiguredText(f) ==
    IF HasStrip(ConfiguredKind(f)) THEN f.text ELSE <<>>

\* Line 28: `configured_device_name and configured_device_name.strip()`:
\* .strip() is called only on a truthy value and raises when it has none.
StripRaises(f) ==
    Truthy(ConfiguredKind(f), ConfiguredText(f)) /\ ~HasStrip(ConfiguredKind(f))

\* Lines 17-40: some statement of the try block raises.
LoadRaises(f) ==
    \/ ReadRaises(f)
    \/ ConfigGetRaises(f)
    \/ DeviceGetRaises(f)
    \/ StripRaises(f)

\* Lines 28-29: the device name the try block leaves behind.
ResolvedName(f) ==
    IF /\ Truthy(ConfiguredKind(f), ConfiguredText(f))
       /\ Strip(ConfiguredKind(f), ConfiguredText(f)) # <<>>
    THEN Named(ConfiguredKind(f), Strip(ConfiguredKind(f), ConfiguredText(f)))
    ELSE None

-----------------------------------------------------------------------------
(* Start-up: the module-level code of server.py *)

\* An outcome of lines 16-43 that swallows the exception and goes on with
\* auto-selection instead of exiting.
LoadOutcomeSwallowingErrors(f) ==
    IF ~f.exists \/ LoadRaises(f)
    THEN [exit |-> FALSE, name |-> None]
    ELSE [exit |-> FALSE, name |-> ResolvedName(f)]

\* Lines 16-43 as a whole: whether the process exits, and device_name.
LoadOutcome(f) ==
    IF ~f.exists THEN [exit |-> FALSE, name |-> None]
    ELSE IF LoadRaises(f) THEN [exit |-> TRUE, name |-> None]
    ELSE [exit |-> FALSE, name |-> ResolvedName(f)]

\* The @mcp.tool() functions in the order the module defines them.
ToolOrder == <<"get_packages", "execute_adb_shell_command", "get_uilayout",
               "get_screenshot", "get_package_action_intents", "termux_exec",
               "termux_write_file", "termux_read_file", "termux_session_start">>

\* Tools defined before `termux = TermuxManager(deviceManager)` (line 161).
ToolsBeforeTermux == 5

\* AdbDeviceManager.__init__ is not part of the files at hand: it either
\* selects a device or fails (no device, several devices, name not found).
AdbDeviceManagerOutcomes == {"ok", "fail"}

\* Lines 13-43.
LoadConfig ==
    /\ spc = "load"
    /\ LET o == LoadOutcome(configFile)
       IN  /\ device_name' = o.name
           /\ reported' = o.exit
           /\ exitStatus' = IF o.exit THEN 1 ELSE exitStatus
           /\ spc' = IF o.exit THEN "exited" ELSE "mcp"
    /\ UNCHANGED <<configFile, asMain, mcpCreated, managerInstances,
                   managerArg, termuxCreated, registered, running, served>>
    /\ UNCHANGED toolVars

\* Line 47.
CreateMcp ==
    /\ spc = "mcp"
    /\ mcpCreated' = TRUE
    /\ spc' = "manager"
    /\ UNCHANGED <<configFile, asMain, device_name, exitStatus, reported,
                   managerInstances, managerArg, termuxCreated, registered,
                   running, served>>
    /\ UNCHANGED toolVars

\* Line 48.
CreateDeviceManager ==
    /\ spc = "manager"
    /\ managerInstances' = managerInstances + 1
    /\ managerArg' = device_name
    /\ \E o \in AdbDeviceManagerOutcomes :
          /\ spc' = IF o = "ok" THEN "tools" ELSE "crashed"
          /\ exitStatus' = IF o = "ok" THEN exitStatus ELSE 1
    /\ UNCHANGED <<configFile, asMain, device_name, reported, mcpCreated,
                   termuxCreated, registered, running, served>>
    /\ UNCHANGED toolVars

\* One @mcp.tool() decorator (lines 51, 62, 74, 88, 98, 164, 189, 214, 237).
RegisterTool ==
    /\ spc = "tools"
    /\ Len(registered) < Len(ToolOrder)
    /\ Len(registered) = ToolsBeforeTermux => termuxCreated
    /\ registered' = Append(registered, ToolOrder[Len(registered) + 1])
    /\ UNCHANGED <<configFile, asMain, spc, device_name, exitStatus, reported,
                   mcpCreated, managerInstances, managerArg, termuxCreated,
                   running, served>>
    /\ UNCHANGED toolVars

\* Line 161.
CreateTermuxManager ==
    /\ spc = "tools"
    /\ Len(registered) = ToolsBeforeTermux
    /\ ~termuxCreated
    /\ termuxCreated' = TRUE
    /\ UNCHANGED <<configFile, asMain, spc, device_name, exitStatus, reported,
                   mcpCreated, managerInstances, managerArg, registered,
                   running, served>>
    /\ UNCHANGED toolVars

\* Lines 262-263.
EnterMain ==
    /\ spc = "tools"
    /\ Len(registered) = Len(ToolOrder)
    /\ running' = asMain
    /\ spc' = IF asMain THEN "serving" ELSE "imported"
    /\ UNCHANGED <<configFile, asMain, device_name, exitStatus, reported,
                   mcpCreated, managerInstances, managerArg, termuxCreated,
                   registered, served>>
    /\ UNCHANGED toolVars

\* mcp.run serving one tool call of a client.
ServeToolCall ==
    /\ spc = "serving"
    /\ served < MaxServed
    /\ served' = served + 1
    /\ UNCHANGED <<configFile, asMain, spc, device_name, exitStatus, reported,
                   mcpCreated, managerInstances, managerArg, termuxCreated,
                   registered, running>>
    /\ UNCHANGED toolVars

-----------------------------------------------------------------------------
(* Tool calls: values *)

\* The server processes attached to the one device.  Each serves one tool
\* call at a time; nothing orders the device shell calls of two servers.
Servers == {1, 2}

\* Command texts.
CmdLs        == <<"l", "s">>
CmdId        == <<"i", "d">>
CmdPkg       == <<"p", "k", "g">>
CmdPkgUpdate == <<"p", "k", "g", " ", "u", "p", "d", "a", "t", "e">>
Commands     == {CmdLs, CmdId, CmdPkg, CmdPkgUpdate}

\* Line 178: the words whose presence sends a command to ADB.
AdbKeywords == {<<"l", "s">>, <<"c", "a", "t">>, <<"e", "c", "h", "o">>,
                <<"p", "w", "d">>, <<"d", "a", "t", "e">>,
                <<"w", "h", "o", "a", "m", "i">>}

\* Python's `sub in s` on str: sub occurs as a contiguous substring of s.
Contains(sub, s) ==
    \E i \in 1..(Len(s) - Len(sub) + 1) : SubSeq(s, i, i + Len(sub) - 1) = sub

\* Line 178: any(cmd in command for cmd in [...]).
UsesAdb(c) == \E k \in AdbKeywords : Contains(k, c)

\* The program a command line starts: its text up to the first blank.
RECURSIVE FirstWord(_)
FirstWord(c) ==
    IF c = <<>> \/ Head(c) = " " THEN <<>> ELSE <<Head(c)>> \o FirstWord(Tail(c))

\* Programs that exist in the Termux userland only, not in the ADB shell.
TermuxPrograms == {CmdPkg}

\* Lines 177 and 181: a command that "needs Termux specifically".
NeedsTermux(c) == FirstWord(c) \in TermuxPrograms

\* Pieces of text the tools return or the device stores.  A text is a
\* sequence of pieces; f"{a}{b}" is concatenation.
Lit(x)    == [k |-> "lit", s |-> x, c |-> <<>>]       \* a literal
Raw(c)    == [k |-> "raw", s |-> "", c |-> c]         \* the text c itself
Out(c)    == [k |-> "out", s |-> "", c |-> c]         \* what running c prints
Bcast(c)  == [k |-> "bcast", s |-> "", c |-> c]       \* what `am broadcast` prints
MgrErr(c) == [k |-> "mgrerr", s |-> "", c |-> c]      \* an error text of the manager
Exc(op)   == [k |-> "exc", s |-> op, c |-> <<>>]      \* str(e) of the step that raised
Rest(p)   == [k |-> "rest", s |-> p.s, c |-> p.c]     \* the end of p, its start overwritten

Tools == {"execute_adb_shell_command", "termux_exec", "termux_write_file",
          "termux_read_file", "termux_session_start"}
TermuxTools == Tools \ {"execute_adb_shell_command"}

\* Lines 186, 211, 234, 259.
ErrorPrefix(t) ==
    CASE t = "termux_exec"          -> "Error executing command: "
      [] t = "termux_write_file"    -> "Error writing file: "
      [] t = "termux_read_file"     -> "Error reading file: "
      [] t = "termux_session_start" -> "Error starting session: "
      [] OTHER                      -> ""

\* Lines 148-149 and the filenames a client passes to the file tools.
CmdFile     == "cmd.sh"
ResultFile  == "result.txt"
SessionFile == "session.txt"
FileNames   == {"note.txt", CmdFile}
AllFiles    == FileNames \cup {CmdFile, ResultFile, SessionFile}

\* Line 118: self.shared_dir.
SharedDir == "/data/local/tmp/termux_bridge"

\* Lines 203 and 227: f"{termux.shared_dir}/{filename}".
FilePath(f) == <<Lit(SharedDir), Lit("/"), Lit(f)>>

Absent == [exists |-> FALSE, exec |-> FALSE, data |-> <<>>]

\* `> path` of the device's shell: the file is created, not executable, or
\* emptied, keeping its mode.
Opened(old) == [exists |-> TRUE, exec |-> old.exists /\ old.exec, data |-> <<>>]

\* What echo '<text>' writes: the text and a newline.
EchoText(c) == c \o <<"\n">>

\* A text written from the start of a file over what the file holds: what
\* is longer than the new text stays behind it.
OverlayText(old, new) ==
    IF old = <<>> THEN <<Raw(new)>>
    ELSE <<Raw(new \o SubSeq(old[1].c, Len(new) + 1, Len(old[1].c)))>>

\* An output written from the start of a file over what the file holds: the
\* new output alone, or the new output and the rest of a longer old one.
OverlayOutcomes(old, new) ==
    IF new = <<>> THEN {old}
    ELSE IF old = <<>> THEN {new}
    ELSE {new, new \o [i \in 1..Len(old) |-> Rest(old[i])]}

\* Some server's echo has cmd.sh open for writing.
Busy == \E u \in Servers : cmdOpen[u]

\* Line 153: what the shell says when it cannot execute cmd.sh; <<>> when
\* it can.
ExecComplaint(script, busy) ==
    IF ~script.exists THEN <<Lit("cmd.sh: not found\n")>>
    ELSE IF ~script.exec THEN <<Lit("cmd.sh: Permission denied\n")>>
    ELSE IF busy THEN <<Lit("cmd.sh: Text file busy\n")>>
    ELSE <<>>

\* The lines of a text, without their newlines.
RECURSIVE LinesOf(_, _)
LinesOf(chars, line) ==
    IF chars = <<>> THEN (IF line = <<>> THEN <<>> ELSE <<line>>)
    ELSE IF Head(chars) = "\n" THEN <<line>> \o LinesOf(Tail(chars), <<>>)
    ELSE LinesOf(Tail(chars), Append(line, Head(chars)))

\* The output of every line of a text that holds a command.
RECURSIVE OutputOf(_)
OutputOf(lines) ==
    IF lines = <<>> THEN <<>>
    ELSE (IF Head(lines) = <<>> THEN <<>> ELSE <<Out(Head(lines))>>) \o OutputOf(Tail(lines))

\* Line 153: what the script cmd.sh holds prints when the shell reads and
\* runs it; the shell's complaint when the file is gone by then.
ScriptOutput(script) ==
    IF ~script.exists THEN <<Lit("cmd.sh: No such file or directory\n")>>
    ELSE IF script.data = <<>> THEN <<>>
    ELSE OutputOf(LinesOf(script.data[1].c, <<>>))

NoCall   == [kind |-> "none", text |-> <<>>]
Returned(text) == [kind |-> "returned", text |-> text]
Raised(text)   == [kind |-> "raised", text |-> text]

\* device.shell either returns or raises (the connection is gone).
ShellOutcomes == BOOLEAN

\* AdbDeviceManager.execute_adb_shell_command is not part of the files at
\* hand.  It is a thin wrapper of device.shell: it returns the command's
\* output, or an error text, or lets the device's exception through.
ManagerOutcomes == {"output", "error", "raise"}
ManagerResult(o, c) == IF o = "output" THEN <<Out(c)>> ELSE <<MgrErr(c)>>

-----------------------------------------------------------------------------
(* Tool calls: steps *)

\* Bookkeeping shared by the steps.
Logged(s, op, ok) == [log EXCEPT ![s] = Append(@, [op |-> op, ok |-> ok])]
\* An error string that carries termux_exec's prefix whatever the tool.
ErrorReturnOnePrefix(s, op) == Returned(<<Lit("Error executing command: "), Exc(op)>>)
\* Lines 185-186, 210-211, 233-234, 258-259: the except branch of a tool.
ErrorReturn(s, op) == Returned(<<Lit(ErrorPrefix(tool[s])), Exc(op)>>)
\* The tool function of server u has been entered and has not returned.
Active(u) == pc[u] \notin {"idle", "done"}

\* The first device step of a tool (lines 70, 178-182, 202, 226, 248).
FirstStep(t, c) ==
    CASE t = "execute_adb_shell_command" -> "adb"
      [] t = "termux_exec"          -> IF UsesAdb(c) THEN "adb" ELSE "broadcast"
      [] t = "termux_session_start" -> "amstart"
      [] OTHER                      -> "mkdir"

\* What follows _ensure_bridge in each caller (lines 151, 206, 229, 254).
AfterEnsure(t) ==
    CASE t = "termux_exec"          -> "write"
      [] t = "termux_write_file"    -> "wfile"
      [] t = "termux_read_file"     -> "rfile"
      [] OTHER                      -> "marker"

\* A client calls one of the tools T of server s.  The call overlaps every
\* call that is in progress on another server, and they overlap it.
CallFrom(s, T) ==
    /\ pc[s] = "idle"
    /\ \E t \in T, c \in Commands, f \in FileNames :
          /\ tool' = [tool EXCEPT ![s] = t]
          /\ command' = [command EXCEPT ![s] =
                IF t \in {"termux_read_file", "termux_session_start"} THEN <<>> ELSE c]
          /\ filename' = [filename EXCEPT ![s] =
                IF t \in {"termux_write_file", "termux_read_file"} THEN f ELSE ""]
          /\ pc' = [pc EXCEPT ![s] = FirstStep(t, c)]
    /\ overlapped' = [u \in Servers |->
          IF u = s THEN \E v \in Servers \ {s} : Active(v)
          ELSE overlapped[u] \/ Active(u)]
    /\ UNCHANGED <<log, readval, ret, mgrCalls, pending, cmdOpen, resOpen,
                   files, dirExists>>
    /\ UNCHANGED startupVars

\* A client calls any tool.
Call(s) == CallFrom(s, Tools)

\* A client calls termux_exec.
CallTermuxExec(s) == CallFrom(s, {"termux_exec"})

\* Lines 63-71: the execute_adb_shell_command tool.
ExecuteAdbShellCommand(s) ==
    /\ pc[s] = "adb"
    /\ tool[s] = "execute_adb_shell_command"
    /\ mgrCalls' = [mgrCalls EXCEPT ![s] = @ + 1]
    /\ \E o \in ManagerOutcomes :
          /\ log' = Logged(s, "adb", o # "raise")
          /\ ret' = [ret EXCEPT ![s] =
                IF o = "raise" THEN Raised(<<Exc("adb")>>)
                ELSE Returned(ManagerResult(o, command[s]))]
    /\ pc' = [pc EXCEPT ![s] = "done"]
    /\ UNCHANGED <<tool, command, filename, readval, overlapped, pending,
                   cmdOpen, resOpen, files, dirExists>>
    /\ UNCHANGED startupVars

\* Lines 178-179 and 185-186: termux_exec taking the ADB route.
TermuxExecAdb(s) ==
    /\ pc[s] = "adb"
    /\ tool[s] = "termux_exec"
    /\ mgrCalls' = [mgrCalls EXCEPT ![s] = @ + 1]
    /\ \E o \in ManagerOutcomes :
          /\ log' = Logged(s, "adb", o # "raise")
          /\ ret' = [ret EXCEPT ![s] =
                IF o = "raise" THEN ErrorReturn(s, "adb")
                ELSE Returned(<<Lit("ADB: ")>> \o ManagerResult(o, command[s]))]
    /\ pc' = [pc EXCEPT ![s] = "done"]
    /\ UNCHANGED <<tool, command, filename, readval, overlapped, pending,
                   cmdOpen, resOpen, files, dirExists>>
    /\ UNCHANGED startupVars

\* A broadcast whose success is followed by the bridge all the same.
BroadcastThenBridge(s) ==
    /\ pc[s] = "broadcast"
    /\ \E ok \in ShellOutcomes : log' = Logged(s, "broadcast", ok)
    /\ pc' = [pc EXCEPT ![s] = "mkdir"]
    /\ UNCHANGED <<tool, command, filename, readval, ret, mgrCalls, overlapped,
                   pending, cmdOpen, resOpen, files, dirExists>>
    /\ UNCHANGED startupVars

\* Lines 128-131 and 141-143: the broadcast of _execute_via_api.  It
\* returns, and the sleep of line 135 begins; or it raises and the bridge
\* is next.
Broadcast(s) ==
    /\ pc[s] = "broadcast"
    /\ \E ok \in ShellOutcomes :
          /\ log' = Logged(s, "broadcast", ok)
          /\ pc' = [pc EXCEPT ![s] = IF ok THEN "sleep" ELSE "mkdir"]
    /\ UNCHANGED <<tool, command, filename, readval, ret, mgrCalls, overlapped,
                   pending, cmdOpen, resOpen, files, dirExists>>
    /\ UNCHANGED startupVars

\* Lines 135-139 with 182-183: the sleep is over; _execute_via_api returns
\* the broadcast's result and termux_exec returns "Termux: ...".
BroadcastReturn(s) ==
    /\ pc[s] = "sleep"
    /\ ret' = [ret EXCEPT ![s] =
          Returned(<<Lit("Termux: "), Lit("Command executed via Termux API: "),
                     Bcast(command[s])>>)]
    /\ pc' = [pc EXCEPT ![s] = "done"]
    /\ UNCHANGED <<tool, command, filename, log, readval, mgrCalls, overlapped,
                   pending, cmdOpen, resOpen, files, dirExists>>
    /\ UNCHANGED startupVars

\* Line 123: mkdir -p <shared_dir>.
EnsureMkdir(s) ==
    /\ pc[s] = "mkdir"
    /\ \E ok \in ShellOutcomes :
          /\ log' = Logged(s, "mkdir", ok)
          /\ dirExists' = (dirExists \/ ok)
          /\ pc' = [pc EXCEPT ![s] = IF ok THEN "chmod777" ELSE "done"]
          /\ ret' = [ret EXCEPT ![s] = IF ok THEN @ ELSE ErrorReturn(s, "mkdir")]
    /\ UNCHANGED <<tool, command, filename, readval, mgrCalls, overlapped,
                   pending, cmdOpen, resOpen, files>>
    /\ UNCHANGED startupVars

\* Line 124: chmod 777 <shared_dir>.
EnsureChmod(s) ==
    /\ pc[s] = "chmod777"
    /\ \E ok \in ShellOutcomes :
          /\ log' = Logged(s, "chmod777", ok)
          /\ pc' = [pc EXCEPT ![s] = IF ok THEN AfterEnsure(tool[s]) ELSE "done"]
          /\ ret' = [ret EXCEPT ![s] = IF ok THEN @ ELSE ErrorReturn(s, "chmod777")]
    /\ UNCHANGED <<tool, command, filename, readval, mgrCalls, overlapped,
                   pending, cmdOpen, resOpen, files, dirExists>>
    /\ UNCHANGED startupVars

\* Line 151, first half: device.shell is called with echo '<command>' >
\* cmd.sh and the device's shell opens cmd.sh for writing, which creates or
\* empties it.
BridgeWrite(s) ==
    /\ pc[s] = "write"
    /\ \E ok \in ShellOutcomes :
          /\ log' = Logged(s, "write", ok)
          /\ files' = IF ok THEN [files EXCEPT ![CmdFile] = Opened(@)] ELSE files
          /\ cmdOpen' = IF ok THEN [cmdOpen EXCEPT ![s] = TRUE] ELSE cmdOpen
          /\ pc' = [pc EXCEPT ![s] = IF ok THEN "write2" ELSE "done"]
          /\ ret' = [ret EXCEPT ![s] = IF ok THEN @ ELSE ErrorReturn(s, "write")]
    /\ UNCHANGED <<tool, command, filename, readval, mgrCalls, overlapped,
                   pending, resOpen, dirExists>>
    /\ UNCHANGED startupVars

\* An echo that closes cmd.sh without having written the command.
BridgeWriteCloseEmpty(s) ==
    /\ pc[s] = "write2"
    /\ cmdOpen' = [cmdOpen EXCEPT ![s] = FALSE]
    /\ pc' = [pc EXCEPT ![s] = "chmodx"]
    /\ UNCHANGED <<tool, command, filename, log, readval, ret, mgrCalls,
                   overlapped, pending, resOpen, files, dirExists>>
    /\ UNCHANGED startupVars

\* Line 151, second half: echo writes the command and a newline from the
\* start of the file it opened and closes it; device.shell returns.  A file
\* removed meanwhile takes the text with it.
BridgeWriteClose(s) ==
    /\ pc[s] = "write2"
    /\ files' = IF cmdOpen[s]
          THEN [files EXCEPT ![CmdFile].data = OverlayText(@, EchoText(command[s]))]
          ELSE files
    /\ cmdOpen' = [cmdOpen EXCEPT ![s] = FALSE]
    /\ pc' = [pc EXCEPT ![s] = "chmodx"]
    /\ UNCHANGED <<tool, command, filename, log, readval, ret, mgrCalls,
                   overlapped, pending, resOpen, dirExists>>
    /\ UNCHANGED startupVars

\* Line 152: chmod +x cmd.sh (a complaint of chmod is output, not an exception).
BridgeChmod(s) ==
    /\ pc[s] = "chmodx"
    /\ \E ok \in ShellOutcomes :
          /\ log' = Logged(s, "chmodx", ok)
          /\ files' = IF ok /\ files[CmdFile].exists
                THEN [files EXCEPT ![CmdFile].exec = TRUE]
                ELSE files
          /\ pc' = [pc EXCEPT ![s] = IF ok THEN "run" ELSE "done"]
          /\ ret' = [ret EXCEPT ![s] = IF ok THEN @ ELSE ErrorReturn(s, "chmodx")]
    /\ UNCHANGED <<tool, command, filename, readval, mgrCalls, overlapped,
                   pending, cmdOpen, resOpen, dirExists>>
    /\ UNCHANGED startupVars

\* Line 153, first part: device.shell is called with cmd.sh > result.txt
\* 2>&1 and the device's shell opens result.txt, which creates or empties
\* it.
BridgeRun(s) ==
    /\ pc[s] = "run"
    /\ \E ok \in ShellOutcomes :
          /\ log' = Logged(s, "run", ok)
          /\ files' = IF ok THEN [files EXCEPT ![ResultFile] = Opened(@)] ELSE files
          /\ resOpen' = IF ok THEN [resOpen EXCEPT ![s] = TRUE] ELSE resOpen
          /\ pc' = [pc EXCEPT ![s] = IF ok THEN "runx" ELSE "done"]
          /\ ret' = [ret EXCEPT ![s] = IF ok THEN @ ELSE ErrorReturn(s, "run")]
    /\ UNCHANGED <<tool, command, filename, readval, mgrCalls, overlapped,
                   pending, cmdOpen, dirExists>>
    /\ UNCHANGED startupVars

\* Line 153, the execution: the shell tries to execute cmd.sh as it is
\* now.  What cannot be executed leaves a complaint to write; a script is
\* read next.
BridgeRunExec(s) ==
    /\ pc[s] = "runx"
    /\ pending' = [pending EXCEPT ![s] = ExecComplaint(files[CmdFile], Busy)]
    /\ pc' = [pc EXCEPT ![s] =
          IF ExecComplaint(files[CmdFile], Busy) # <<>> THEN "run3" ELSE "run2"]
    /\ UNCHANGED <<tool, command, filename, log, readval, ret, mgrCalls,
                   overlapped, cmdOpen, resOpen, files, dirExists>>
    /\ UNCHANGED startupVars

\* Line 153, the script: the shell reads the script cmd.sh holds now and
\* runs it.
BridgeRunRead(s) ==
    /\ pc[s] = "run2"
    /\ pending' = [pending EXCEPT ![s] = ScriptOutput(files[CmdFile])]
    /\ pc' = [pc EXCEPT ![s] = "run3"]
    /\ UNCHANGED <<tool, command, filename, log, readval, ret, mgrCalls,
                   overlapped, cmdOpen, resOpen, files, dirExists>>
    /\ UNCHANGED startupVars

\* Line 153, last part: the output arrives in the file that was opened, from
\* its start, over whatever another run has put there meanwhile; a file
\* removed meanwhile takes the output with it.  device.shell returns.
BridgeRunEnd(s) ==
    /\ pc[s] = "run3"
    /\ IF resOpen[s]
       THEN \E t \in OverlayOutcomes(files[ResultFile].data, pending[s]) :
               files' = [files EXCEPT ![ResultFile].data = t]
       ELSE files' = files
    /\ resOpen' = [resOpen EXCEPT ![s] = FALSE]
    /\ pending' = [pending EXCEPT ![s] = <<>>]
    /\ pc' = [pc EXCEPT ![s] = "cat"]
    /\ UNCHANGED <<tool, command, filename, log, readval, ret, mgrCalls,
                   overlapped, cmdOpen, dirExists>>
    /\ UNCHANGED startupVars

\* Line 154: result = cat result.txt 2>/dev/null || echo 'No output'.
BridgeCat(s) ==
    /\ pc[s] = "cat"
    /\ \E ok \in ShellOutcomes :
          /\ log' = Logged(s, "cat", ok)
          /\ readval' = IF ok
                THEN [readval EXCEPT ![s] =
                        IF files[ResultFile].exists THEN files[ResultFile].data
                        ELSE <<Lit("No output")>>]
                ELSE readval
          /\ pc' = [pc EXCEPT ![s] = IF ok THEN "rm" ELSE "done"]
          /\ ret' = [ret EXCEPT ![s] = IF ok THEN @ ELSE ErrorReturn(s, "cat")]
    /\ UNCHANGED <<tool, command, filename, mgrCalls, overlapped, pending,
                   cmdOpen, resOpen, files, dirExists>>
    /\ UNCHANGED startupVars

\* Line 155, first half: device.shell is called with rm -f cmd.sh
\* result.txt and rm removes cmd.sh.
BridgeRm(s) ==
    /\ pc[s] = "rm"
    /\ \E ok \in ShellOutcomes :
          /\ log' = Logged(s, "rm", ok)
          /\ files' = IF ok THEN [files EXCEPT ![CmdFile] = Absent] ELSE files
          /\ cmdOpen' = IF ok THEN [u \in Servers |-> FALSE] ELSE cmdOpen
          /\ pc' = [pc EXCEPT ![s] = IF ok THEN "rm2" ELSE "done"]
          /\ ret' = [ret EXCEPT ![s] = IF ok THEN @ ELSE ErrorReturn(s, "rm")]
    /\ UNCHANGED <<tool, command, filename, readval, mgrCalls, overlapped,
                   pending, resOpen, dirExists>>
    /\ UNCHANGED startupVars

\* A removal that forgets the result file.
BridgeRmResultKept(s) ==
    /\ pc[s] = "rm2"
    /\ pc' = [pc EXCEPT ![s] = "rm3"]
    /\ UNCHANGED <<tool, command, filename, log, readval, ret, mgrCalls,
                   overlapped, pending, cmdOpen, resOpen, files, dirExists>>
    /\ UNCHANGED startupVars

\* Line 155, second half: rm removes result.txt on the device.
BridgeRmResult(s) ==
    /\ pc[s] = "rm2"
    /\ files' = [files EXCEPT ![ResultFile] = Absent]
    /\ resOpen' = [u \in Servers |-> FALSE]
    /\ pc' = [pc EXCEPT ![s] = "rm3"]
    /\ UNCHANGED <<tool, command, filename, log, readval, ret, mgrCalls,
                   overlapped, pending, cmdOpen, dirExists>>
    /\ UNCHANGED startupVars

\* Lines 155-157 with 182-183: device.shell comes back from the rm; the
\* value read by line 154 is returned and termux_exec prefixes it with
\* "Termux: ".
BridgeReturn(s) ==
    /\ pc[s] = "rm3"
    /\ ret' = [ret EXCEPT ![s] = Returned(<<Lit("Termux: ")>> \o readval[s])]
    /\ pc' = [pc EXCEPT ![s] = "done"]
    /\ UNCHANGED <<tool, command, filename, log, readval, mgrCalls, overlapped,
                   pending, cmdOpen, resOpen, files, dirExists>>
    /\ UNCHANGED startupVars

\* Lines 203-208: echo '<content>' > <shared_dir>/<filename>, then the
\* path is reported.  (Only a server whose calls follow one another takes
\* this step, so nothing acts between the opening and the closing of the
\* file.)
WriteFile(s) ==
    /\ pc[s] = "wfile"
    /\ \E ok \in ShellOutcomes :
          /\ log' = Logged(s, "wfile", ok)
          /\ files' = IF ok
                THEN [files EXCEPT ![filename[s]].data =
                        OverlayText(Opened(files[filename[s]]).data, EchoText(command[s])),
                      ![filename[s]].exists = TRUE]
                ELSE files
          /\ ret' = [ret EXCEPT ![s] =
                IF ok THEN Returned(<<Lit("File written to: ")>> \o FilePath(filename[s]))
                ELSE ErrorReturn(s, "wfile")]
    /\ pc' = [pc EXCEPT ![s] = "done"]
    /\ UNCHANGED <<tool, command, filename, readval, mgrCalls, overlapped,
                   pending, cmdOpen, resOpen, dirExists>>
    /\ UNCHANGED startupVars

\* Lines 229-231: cat <shared_dir>/<filename> 2>/dev/null || echo 'File not found'.
ReadFile(s) ==
    /\ pc[s] = "rfile"
    /\ \E ok \in ShellOutcomes :
          /\ log' = Logged(s, "rfile", ok)
          /\ readval' = IF ok
                THEN [readval EXCEPT ![s] =
                        IF files[filename[s]].exists THEN files[filename[s]].data
                        ELSE <<Lit("File not found")>>]
                ELSE readval
          /\ ret' = [ret EXCEPT ![s] =
                IF ok THEN Returned(readval'[s]) ELSE ErrorReturn(s, "rfile")]
    /\ pc' = [pc EXCEPT ![s] = "done"]
    /\ UNCHANGED <<tool, command, filename, mgrCalls, overlapped, pending,
                   cmdOpen, resOpen, files, dirExists>>
    /\ UNCHANGED startupVars

\* Line 248: am start -n com.termux/.app.TermuxActivity.
SessionLaunch(s) ==
    /\ pc[s] = "amstart"
    /\ \E ok \in ShellOutcomes :
          /\ log' = Logged(s, "amstart", ok)
          /\ pc' = [pc EXCEPT ![s] = IF ok THEN "mkdir" ELSE "done"]
          /\ ret' = [ret EXCEPT ![s] = IF ok THEN @ ELSE ErrorReturn(s, "amstart")]
    /\ UNCHANGED <<tool, command, filename, readval, mgrCalls, overlapped,
                   pending, cmdOpen, resOpen, files, dirExists>>
    /\ UNCHANGED startupVars

\* Lines 254-256: the session marker; the quotes keep $(date) unexpanded.
SessionMarker(s) ==
    /\ pc[s] = "marker"
    /\ \E ok \in ShellOutcomes :
          /\ log' = Logged(s, "marker", ok)
          /\ files' = IF ok
                THEN [files EXCEPT ![SessionFile] =
                        [exists |-> TRUE, exec |-> @.exists /\ @.exec,
                         data |-> <<Lit("Session started at $(date)\n")>>]]
                ELSE files
          /\ ret' = [ret EXCEPT ![s] =
                IF ok THEN Returned(<<Lit("Termux session started. Bridge directory: "),
                                      Lit(SharedDir)>>)
                ELSE ErrorReturn(s, "marker")]
    /\ pc' = [pc EXCEPT ![s] = "done"]
    /\ UNCHANGED <<tool, command, filename, readval, mgrCalls, overlapped,
                   pending, cmdOpen, resOpen, dirExists>>
    /\ UNCHANGED startupVars

\* The framework hands the outcome to the client; the server is free again.
Return(s) ==
    /\ pc[s] = "done"
    /\ pc' = [pc EXCEPT ![s] = "idle"]
    /\ tool' = [tool EXCEPT ![s] = ""]
    /\ command' = [command EXCEPT ![s] = <<>>]
    /\ filename' = [filename EXCEPT ![s] = ""]
    /\ log' = [log EXCEPT ![s] = <<>>]
    /\ readval' = [readval EXCEPT ![s] = <<>>]
    /\ ret' = [ret EXCEPT ![s] = NoCall]
    /\ mgrCalls' = [mgrCalls EXCEPT ![s] = 0]
    /\ overlapped' = [overlapped EXCEPT ![s] = FALSE]
    /\ UNCHANGED <<pending, cmdOpen, resOpen, files, dirExists>>
    /\ UNCHANGED startupVars

-----------------------------------------------------------------------------
(* Specifications *)

ToolsIdle ==
    /\ pc = [s \in Servers |-> "idle"]
    /\ tool = [s \in Servers |-> ""]
    /\ command = [s \in Servers |-> <<>>]
    /\ filename = [s \in Servers |-> ""]
    /\ log = [s \in Servers |-> <<>>]
    /\ readval = [s \in Servers |-> <<>>]
    /\ ret = [s \in Servers |-> NoCall]
    /\ mgrCalls = [s \in Servers |-> 0]
    /\ overlapped = [s \in Servers |-> FALSE]
    /\ pending = [s \in Servers |-> <<>>]
    /\ cmdOpen = [s \in Servers |-> FALSE]
    /\ resOpen = [s \in Servers |-> FALSE]
    /\ files = [f \in AllFiles |-> Absent]
    /\ dirExists = FALSE

\* The process before its first statement, for every config.yaml.
InitStartup ==
    /\ configFile \in ConfigFiles
    /\ asMain \in BOOLEAN
    /\ spc = "load"
    /\ device_name = None
    /\ exitStatus = -1
    /\ reported = FALSE
    /\ mcpCreated = FALSE
    /\ managerInstances = 0
    /\ managerArg = None
    /\ termuxCreated = FALSE
    /\ registered = <<>>
    /\ running = FALSE
    /\ served = 0
    /\ ToolsIdle

NextStartup ==
    \/ LoadConfig
    \/ CreateMcp
    \/ CreateDeviceManager
    \/ RegisterTool
    \/ CreateTermuxManager
    \/ EnterMain
    \/ ServeToolCall

SpecStartup == InitStartup /\ [][NextStartup]_vars

\* Servers that came up without config.yaml and are inside mcp.run.
Init ==
    /\ configFile = NoFile
    /\ asMain = TRUE
    /\ spc = "serving"
    /\ device_name = None
    /\ exitStatus = -1
    /\ reported = FALSE
    /\ mcpCreated = TRUE
    /\ managerInstances = 1
    /\ managerArg = None
    /\ termuxCreated = TRUE
    /\ registered = ToolOrder
    /\ running = TRUE
    /\ served = 0
    /\ ToolsIdle

\* One server: the framework runs a tool function to its end before it
\* reads the next request, so the calls of one server never overlap.
OneServer == {1}

Next ==
    \E s \in OneServer :
        \/ Call(s)
        \/ ExecuteAdbShellCommand(s)
        \/ TermuxExecAdb(s)
        \/ Broadcast(s)
        \/ BroadcastReturn(s)
        \/ EnsureMkdir(s)
        \/ EnsureChmod(s)
        \/ BridgeWrite(s)
        \/ BridgeWriteClose(s)
        \/ BridgeChmod(s)
        \/ BridgeRun(s)
        \/ BridgeRunExec(s)
        \/ BridgeRunRead(s)
        \/ BridgeRunEnd(s)
        \/ BridgeCat(s)
        \/ BridgeRm(s)
        \/ BridgeRmResult(s)
        \/ BridgeReturn(s)
        \/ WriteFile(s)
        \/ ReadFile(s)
        \/ SessionLaunch(s)
        \/ SessionMarker(s)
        \/ Return(s)

Spec == Init /\ [][Next]_vars

\* Two servers on the same device, each serving termux_exec calls.
NextBridge ==
    \E s \in Servers :
        \/ CallTermuxExec(s)
        \/ TermuxExecAdb(s)
        \/ Broadcast(s)
        \/ BroadcastReturn(s)
        \/ EnsureMkdir(s)
        \/ EnsureChmod(s)
        \/ BridgeWrite(s)
        \/ BridgeWriteClose(s)
        \/ BridgeChmod(s)
        \/ BridgeRun(s)
        \/ BridgeRunExec(s)
        \/ BridgeRunRead(s)
        \/ BridgeRunEnd(s)
        \/ BridgeCat(s)
        \/ BridgeRm(s)
        \/ BridgeRmResult(s)
        \/ BridgeReturn(s)
        \/ Return(s)

SpecBridge == Init /\ [][NextBridge]_vars

-----------------------------------------------------------------------------
(* Properties of the start-up code (SpecStartup) *)

OnlyWhitespace(kind, t) == \A i \in 1..Len(t) : t[i] \in Whitespace(kind)

\* d is t without its surrounding whitespace: t = pre \o d \o post, where
\* pre and post are whitespace only and d starts and ends with other text.
IsStrippedOf(kind, d, t) ==
    /\ d # <<>>
    /\ d[1] \notin Whitespace(kind)
    /\ d[Len(d)] \notin Whitespace(kind)
    /\ \E i \in 1..Len(t) :
          /\ i + Len(d) - 1 <= Len(t)
          /\ SubSeq(t, i, i + Len(d) - 1) = d
          /\ OnlyWhitespace(kind, SubSeq(t, 1, i - 1))
          /\ OnlyWhitespace(kind, SubSeq(t, i + Len(d), Len(t)))

\* config.yaml exists and loads, and device.name is there with a value of
\* one of the given kinds that is not empty and not only whitespace.
NameGiven(f, kinds) ==
    /\ f.exists /\ f.readable /\ f.wellformed
    /\ f.top = "dict" /\ f.device = "dict"
    /\ f.name \in kinds
    /\ f.text # <<>>
    /\ ~OnlyWhitespace(f.name, f.text)

\* The cases the comment of lines 24-27 and the else branch of line 41 name:
\* no file, an empty file, no or a null device section, no, a null, an
\* empty or a blank name.
AutoSelectCase(f) ==
    \/ ~f.exists
    \/ /\ f.exists /\ f.readable /\ f.wellformed
       /\ \/ f.top = "null"
          \/ f.top = "dict" /\ f.device \in {"missing", "null"}
          \/ f.top = "dict" /\ f.device = "dict" /\ f.name \in {"missing", "null"}
          \/ f.top = "dict" /\ f.device = "dict" /\ f.name = "str" /\ OnlyWhitespace("str", f.text)

\* What AdbDeviceManager is handed, given the kinds of name that count.
SelectionRule(kinds) ==
    /\ managerInstances >= 1 =>
          IF NameGiven(configFile, kinds)
          THEN /\ managerArg.type = configFile.name
               /\ IsStrippedOf(configFile.name, managerArg.text, configFile.text)
          ELSE managerArg = None
    /\ (spc # "load" /\ AutoSelectCase(configFile)) =>
          /\ spc # "exited"
          /\ device_name = None

\* C1 as stated: the device name handed to AdbDeviceManager is the stripped
\* device.name exactly when config.yaml loads and device.name is a non-empty,
\* non-blank string (str); in every other case that is not an error it is
\* None, and start-up continues.
C1_AsStated == SelectionRule({"str"})

\* C1 (amended): the device name handed to AdbDeviceManager is the stripped
\* device.name, of the type it has in the file, exactly when config.yaml
\* loads and device.name is a non-empty, non-blank str or bytes value (a
\* YAML !!binary scalar), whitespace being what .strip() of that type
\* removes; in every other case that is not an error it is None, and
\* start-up continues.
C1_DeviceSelection == SelectionRule({"str", "bytes"})

\* C1 witness: a str name with a form feed before and a no-break space
\* after it reached the manager stripped.
C1_Witness ==
    /\ managerInstances = 1
    /\ configFile.name = "str"
    /\ configFile.text = <<"\f", "a", "\\xa0">>
    /\ managerArg = Named("str", <<"a">>)

\* config.yaml exists and reading, parsing or interpreting it raises.
ConfigFails(f) ==
    /\ f.exists
    /\ \/ ~f.readable
       \/ ~f.wellformed
       \/ f.top \in {"int", "str1", "list1"}
       \/ f.top = "dict" /\ f.device \in {"int", "str1", "list1"}
       \/ f.top = "dict" /\ f.device = "dict" /\ f.name \in {"true", "int", "list1"}

\* C2: when config.yaml exists and loading it raises, the process reports
\* the error and exits with status 1 without instantiating AdbDeviceManager,
\* registering a tool or reaching mcp.run; and the device manager is
\* instantiated at most once, only after config resolution, and before any
\* tool call is served.
C2_ConfigErrorExits ==
    /\ (spc # "load" /\ ConfigFails(configFile)) =>
          /\ spc = "exited"
          /\ exitStatus = 1
          /\ reported
          /\ managerInstances = 0
          /\ registered = <<>>
          /\ ~running
          /\ served = 0
    /\ spc = "exited" => ConfigFails(configFile)
    /\ managerInstances <= 1
    /\ managerInstances = 1 => spc \notin {"load", "mcp", "exited"}
    /\ spc \in {"load", "mcp", "exited"} => managerInstances = 0
    /\ (running \/ served > 0 \/ registered # <<>>) => managerInstances = 1

\* C2 witness: a config whose device.name is a number made the process exit.
C2_Witness ==
    /\ spc = "exited"
    /\ configFile.name = "int"
    /\ exitStatus = 1
    /\ managerInstances = 0

-----------------------------------------------------------------------------
(* Properties of the tool calls (Spec, SpecBridge) *)

\* Line 147 and lines 151-155: the device steps of the bridge fallback.
BridgeOrder == <<"mkdir", "chmod777", "write", "chmodx", "run", "cat", "rm">>
BridgeOps == {BridgeOrder[i] : i \in 1..Len(BridgeOrder)}

OpsOf(l) == [i \in 1..Len(l) |-> l[i].op]
CountOp(l, op) == Cardinality({i \in 1..Len(l) : l[i].op = op})
Failures(l) == {i \in 1..Len(l) : ~l[i].ok}
IsPrefix(a, b) == Len(a) <= Len(b) /\ a = SubSeq(b, 1, Len(a))

\* The steps of a termux_exec call after its broadcast.
AfterBroadcast(l) ==
    IF l # <<>> /\ l[1].op = "broadcast" THEN Tail(l) ELSE <<>>

\* A termux_exec call that went through the whole bridge fallback.
BridgeCompleted(s) ==
    /\ tool[s] = "termux_exec"
    /\ pc[s] = "done"
    /\ OpsOf(AfterBroadcast(log[s])) = BridgeOrder
    /\ Failures(AfterBroadcast(log[s])) = {}

\* C3: within one termux_exec call the broadcast is attempted at most once;
\* the bridge fallback runs at most once and only after the broadcast
\* raised; and when a fallback step raises nothing is retried: the call
\* ends there with "Error executing command: ...".
C3_SingleFallback ==
    \A s \in Servers : tool[s] = "termux_exec" =>
        /\ CountOp(log[s], "broadcast") <= 1
        /\ \A op \in BridgeOps : CountOp(log[s], op) <= 1
        /\ (\E op \in BridgeOps : CountOp(log[s], op) > 0) =>
              /\ log[s][1] = [op |-> "broadcast", ok |-> FALSE]
              /\ IsPrefix(OpsOf(Tail(log[s])), BridgeOrder)
        /\ \A i \in Failures(AfterBroadcast(log[s])) :
              /\ i = Len(AfterBroadcast(log[s]))
              /\ pc[s] = "done"
              /\ ret[s] = Returned(<<Lit("Error executing command: "),
                                     Exc(AfterBroadcast(log[s])[i].op)>>)

\* C3 witness: the broadcast raised, the fallback ran up to its run step,
\* which raised, and the call ended with the error string.
C3_Witness ==
    \E s \in Servers :
        /\ tool[s] = "termux_exec"
        /\ pc[s] = "done"
        /\ OpsOf(log[s]) = <<"broadcast", "mkdir", "chmod777", "write", "chmodx", "run">>
        /\ Failures(log[s]) = {1, 6}
        /\ ret[s] = Returned(<<Lit("Error executing command: "), Exc("run")>>)

\* C4: the bridge has no mutual exclusion.  A termux_exec call that went
\* through the bridge while no call of another server was in progress
\* returns the output of its own command, so every other result comes from
\* an overlap; and while one server is anywhere between writing cmd.sh and
\* removing it, the other server's write of cmd.sh is not held back.
C4_NoMutualExclusion ==
    /\ \A s \in Servers :
          (BridgeCompleted(s) /\ ~overlapped[s]) =>
              ret[s] = Returned(<<Lit("Termux: "), Out(command[s])>>)
    /\ \A s, t \in Servers :
          (s # t /\ pc[s] \in {"write2", "chmodx", "run", "runx", "run2", "run3", "cat", "rm"}
             /\ pc[t] = "write") =>
              ENABLED BridgeWrite(t)

\* C4 witness: two overlapping bridge executions of different commands; one
\* returned the output of the other's command, the other found result.txt
\* removed and returned "No output".
C4_Witness ==
    \E s, t \in Servers :
        /\ s # t
        /\ command[s] # command[t]
        /\ BridgeCompleted(s) /\ BridgeCompleted(t)
        /\ ret[s] = Returned(<<Lit("Termux: "), Out(command[t])>>)
        /\ ret[t] = Returned(<<Lit("Termux: "), Lit("No output")>>)

\* C5 as stated: termux_exec takes exactly one of the two routes, the ADB
\* route exactly when the command contains one of the six words, and the
\* ADB route only for commands that do not need Termux: every
\* Termux-specific command goes through the Termux API.
C5_Routing ==
    \A s \in Servers : (tool[s] = "termux_exec" /\ log[s] # <<>>) =>
        /\ log[s][1].op \in {"adb", "broadcast"}
        /\ CountOp(log[s], "adb") = 0 \/ CountOp(log[s], "broadcast") = 0
        /\ log[s][1].op = "adb" <=> UsesAdb(command[s])
        /\ log[s][1].op = "adb" => ~NeedsTermux(command[s])
        /\ NeedsTermux(command[s]) => log[s][1].op = "broadcast"

\* C6 as stated: every call of the execute_adb_shell_command tool returns a
\* string, the device manager's result unchanged (the command's output or an
\* error text), after exactly one device-manager call.
C6_ReturnsManagerResult ==
    \A s \in Servers : (tool[s] = "execute_adb_shell_command" /\ pc[s] = "done") =>
        /\ ret[s].kind = "returned"
        /\ ret[s].text \in {<<Out(command[s])>>, <<MgrErr(command[s])>>}
        /\ mgrCalls[s] = 1

\* The Termux tools' error contract, but for the failures of the steps in
\* `exempt`: the tool never raises; no step follows a failing step, and the
\* call returns its own error prefix and the exception.
ErrorContract(exempt) ==
    \A s \in Servers : tool[s] \in TermuxTools =>
        /\ ret[s].kind # "raised"
        /\ pc[s] = "done" => ret[s].kind = "returned"
        /\ \A i \in Failures(log[s]) :
              log[s][i].op \notin exempt =>
                  /\ i = Len(log[s])
                  /\ pc[s] = "done" =>
                        ret[s] = Returned(<<Lit(ErrorPrefix(tool[s])), Exc(log[s][i].op)>>)

\* C7 as stated: the four Termux tools never raise; whatever device shell
\* step fails, the tool returns a string beginning with its own error prefix
\* and runs no further device shell step after the failing one.
C7_AsStated == ErrorContract({})

\* C7 (amended): the four Termux tools never raise; when a device shell step
\* fails the tool returns a string beginning with its own error prefix and
\* runs no further device shell step, except that in termux_exec a failing
\* Termux API broadcast is followed by the bridge fallback: the call then
\* returns "Termux: ..." when the fallback succeeds, or the error string at
\* the first fallback step that fails.
C7_ErrorStrings ==
    /\ ErrorContract({"broadcast"})
    /\ \A s \in Servers : tool[s] \in TermuxTools =>
          \A i \in Failures(log[s]) : log[s][i].op # "broadcast" => pc[s] = "done"
    /\ \A s \in Servers :
          (tool[s] \in TermuxTools /\ pc[s] = "done" /\ Failures(log[s]) \subseteq {1}
             /\ Failures(log[s]) # {} /\ log[s][1].op = "broadcast") =>
                /\ BridgeCompleted(s)
                /\ ret[s].text[1] = Lit("Termux: ")

\* C7 witness: termux_session_start failed at its last step, the marker,
\* and returned its own error string.
C7_Witness ==
    \E s \in Servers :
        /\ tool[s] = "termux_session_start"
        /\ pc[s] = "done"
        /\ OpsOf(log[s]) = <<"amstart", "mkdir", "chmod777", "marker">>
        /\ Failures(log[s]) = {4}
        /\ ret[s] = Returned(<<Lit("Error starting session: "), Exc("marker")>>)

\* What one step of the bridge fallback of server s guarantees; the two
\* files may be found again at a normal return when filesMayRemain.
BridgeStep(s, filesMayRemain) ==
    /\ tool'[s] = "termux_exec" => IsPrefix(OpsOf(AfterBroadcast(log'[s])), BridgeOrder)
    /\ (pc[s] = "cat" /\ pc'[s] = "rm") =>
          readval'[s] = IF files[ResultFile].exists THEN files[ResultFile].data
                        ELSE <<Lit("No output")>>
    /\ (pc[s] \in {"rm", "rm2"} /\ pc'[s] # "done") =>
          \A f \in AllFiles \ {CmdFile, ResultFile} : files'[f] = files[f]
    /\ (pc[s] = "rm3" /\ BridgeCompleted(s)') =>
          /\ ret'[s] = Returned(<<Lit("Termux: ")>> \o readval[s])
          /\ filesMayRemain \/ ~files'[CmdFile].exists
          /\ filesMayRemain \/ ~files'[ResultFile].exists

\* C8 as stated: the bridge fallback runs its steps in the order mkdir -p,
\* chmod 777, write cmd.sh, chmod +x, run into result.txt, read result.txt,
\* remove both; the value returned is the one read before the removal; and
\* when an execution returns normally neither cmd.sh nor result.txt is left.
C8_AsStated == [][\A s \in Servers : BridgeStep(s, FALSE)]_vars

\* C8 (amended): the bridge fallback runs its steps in the order mkdir -p,
\* chmod 777, write cmd.sh, chmod +x, run into result.txt, read result.txt,
\* remove both; the value returned is the one read before the removal; and
\* when an execution returns normally and no call of another server was in
\* progress at any time during it, neither cmd.sh nor result.txt is left
\* (an overlapping call may have written either file again between its
\* removal and the return).
C8_BridgeProtocol == [][\A s \in Servers : BridgeStep(s, overlapped[s])]_vars

\* C8 witness: a bridge execution that no other call overlapped read the
\* output of its command, removed both files and returned what it had read.
C8_Witness ==
    \E s \in Servers :
        /\ BridgeCompleted(s)
        /\ ~overlapped[s]
        /\ readval[s] = <<Out(command[s])>>
        /\ ret[s] = Returned(<<Lit("Termux: "), Out(command[s])>>)
        /\ ~files[CmdFile].exists
        /\ ~files[ResultFile].exists

=============================================================================
